---- MODULE Spec2Model ----
(***************************************************************************)
(* Model of the job-portal server (src/unnamed/part_000): the Express      *)
(* handlers over the jobs table, the JWT auth middleware and the login     *)
(* route.  The jobs table follows the schema of initDatabase; every        *)
(* handler is one action that applies the handler's operator to the        *)
(* current table and records the request and the response in `last`.      *)
(***************************************************************************)
EXTENDS Integers, Sequences, FiniteSets, TLC

VARIABLES
    jobs,     \* the rows of table jobs (a set of records, one per id)
    nextId,   \* next value of the SERIAL sequence behind jobs.id
    dbNow,    \* the database clock: CURRENT_TIMESTAMP of the last write
    clock,    \* the server clock read by jsonwebtoken, in hours
    issued,   \* the tokens handed out by successful logins
    last,     \* the last request served and its response
    toggled   \* history: per job, the rows as they were before each of its
              \* last two toggles, when no other write to the job came between

vars == <<jobs, nextId, dbNow, clock, issued, last, toggled>>

---------------------------------------------------------------------------
(* Bounds of the model.                                                    *)

\* writes (INSERT/UPDATE/DELETE statements) executed by the database
MaxTime == 3
\* hours the server clock is followed for
MaxClock == 26
\* successful logins
MaxTokens == 1

(* Program constants.                                                      *)

\* expiresIn: '24h'
TokenLifetimeHours == 24
\* parseInt(req.query.limit || '10', 10) || 10
DefaultLimit == 10
\* Math.min(100, ...)
MaxLimit == 100
\* parseInt(req.query.page || '1', 10) || 1
DefaultPage == 1
RecentLimit == 5

---------------------------------------------------------------------------
(* JavaScript values.  Strings are sequences of one-character strings so   *)
(* that parsing and substring search can be computed.                      *)

JsVal(t, n, s) == [t |-> t, n |-> n, s |-> s]
Undefined == JsVal("undefined", 0, <<>>)
Null      == JsVal("null", 0, <<>>)
NaN       == JsVal("NaN", 0, <<>>)
Num(k)    == JsVal("number", k, <<>>)
Str(cs)   == JsVal("string", 0, cs)
Bool(b)   == JsVal("boolean", IF b THEN 1 ELSE 0, <<>>)

\* ToBoolean: what `!x` and `x || y` test
Truthy(v) ==
    CASE v.t = "undefined" -> FALSE
      [] v.t = "null"      -> FALSE
      [] v.t = "NaN"       -> FALSE
      [] v.t = "number"    -> v.n # 0
      [] v.t = "string"    -> v.s # <<>>
      [] v.t = "boolean"   -> v.n = 1

\* x || y
OrElse(x, y) == IF Truthy(x) THEN x ELSE y

Digits == {"0", "1", "2", "3", "4", "5", "6", "7", "8", "9"}

DigitVal(c) ==
    CASE c = "0" -> 0 [] c = "1" -> 1 [] c = "2" -> 2 [] c = "3" -> 3
      [] c = "4" -> 4 [] c = "5" -> 5 [] c = "6" -> 6 [] c = "7" -> 7
      [] c = "8" -> 8 [] c = "9" -> 9

RECURSIVE SkipWs(_)
SkipWs(s) == IF s # <<>> /\ Head(s) = " " THEN SkipWs(Tail(s)) ELSE s

RECURSIVE DropTrailingWs(_)
DropTrailingWs(s) ==
    IF s # <<>> /\ s[Len(s)] = " " THEN DropTrailingWs(SubSeq(s, 1, Len(s) - 1)) ELSE s

RECURSIVE LeadingDigits(_)
LeadingDigits(s) ==
    IF s # <<>> /\ Head(s) \in Digits
    THEN <<Head(s)>> \o LeadingDigits(Tail(s))
    ELSE <<>>

RECURSIVE DigitsToInt(_)
DigitsToInt(ds) ==
    IF ds = <<>> THEN 0 ELSE 10 * DigitsToInt(SubSeq(ds, 1, Len(ds) - 1)) + DigitVal(ds[Len(ds)])

Unsigned(s) == IF s # <<>> /\ Head(s) \in {"-", "+"} THEN Tail(s) ELSE s
Sign(s) == IF s # <<>> /\ Head(s) = "-" THEN -1 ELSE 1

\* parseInt(v, 10) of a string: leading white space, an optional sign, then
\* the longest run of digits; NaN when there is no digit.
ParseInt(v) ==
    LET t  == SkipWs(v.s)
        ds == LeadingDigits(Unsigned(t))
    IN  IF ds = <<>> THEN NaN ELSE Num(Sign(t) * DigitsToInt(ds))

\* Number(v): the whole trimmed string must be a decimal integer literal
\* (the strings of the model hold no fraction or exponent); "" is 0.
Number(v) ==
    CASE v.t = "number"    -> v
      [] v.t = "NaN"       -> NaN
      [] v.t = "undefined" -> NaN
      [] v.t = "null"      -> Num(0)
      [] v.t = "boolean"   -> Num(v.n)
      [] v.t = "string"    ->
            LET t  == DropTrailingWs(SkipWs(v.s))
                u  == Unsigned(t)
                ds == LeadingDigits(u)
            IN  IF t = <<>> THEN Num(0)
                ELSE IF ds # <<>> /\ ds = u THEN Num(Sign(t) * DigitsToInt(ds))
                ELSE NaN

Max(a, b) == IF a >= b THEN a ELSE b
Min(a, b) == IF a <= b THEN a ELSE b

---------------------------------------------------------------------------
(* Pagination parameters of the two listing routes.                        *)

\* Math.max(1, parseInt(req.query.page || '1', 10) || 1)
PageInt(page) ==
    Max(1, OrElse(ParseInt(OrElse(page, Str(<<"1">>))), Num(DefaultPage)).n)

\* LimitInt without the upper clamp Math.min(100, ...)
LimitIntUnclamped(limit) ==
    Max(1, OrElse(ParseInt(OrElse(limit, Str(<<"1", "0">>))), Num(DefaultLimit)).n)

\* LimitInt without the lower clamp Math.max(1, ...)
LimitIntNoFloor(limit) ==
    Min(MaxLimit, OrElse(ParseInt(OrElse(limit, Str(<<"1", "0">>))), Num(DefaultLimit)).n)

\* Math.min(100, Math.max(1, parseInt(req.query.limit || '10', 10) || 10))
LimitInt(limit) ==
    Min(MaxLimit, Max(1, OrElse(ParseInt(OrElse(limit, Str(<<"1", "0">>))), Num(DefaultLimit)).n))

\* (pageInt - 1) * limitInt
Offset(page, limit) == (PageInt(page) - 1) * LimitInt(limit)

---------------------------------------------------------------------------
(* The database: table jobs as created by initDatabase.  A column holds a  *)
(* value or SQL NULL (Null).  Parameters go to the server as text and are  *)
(* cast to the column's type; a failed cast aborts the statement.          *)

SqlError == JsVal("error", 0, <<>>)

\* a query parameter bound to an INTEGER column (salary_min, salary_max)
ToInteger(v) ==
    CASE v.t \in {"null", "undefined"} -> Null
      [] v.t = "number" -> v
      [] v.t = "string" ->
            LET t  == DropTrailingWs(SkipWs(v.s))
                u  == Unsigned(t)
                ds == LeadingDigits(u)
            IN  IF ds # <<>> /\ ds = u THEN Num(Sign(t) * DigitsToInt(ds)) ELSE SqlError
      [] OTHER -> SqlError

\* a query parameter bound to a VARCHAR/TEXT column
ToText(v) ==
    CASE v.t \in {"null", "undefined"} -> Null
      [] v.t = "string" -> v
      [] OTHER -> SqlError

\* a query parameter bound to a BOOLEAN column
ToBoolean(v) ==
    CASE v.t \in {"null", "undefined"} -> Null
      [] v.t = "boolean" -> v
      [] OTHER -> SqlError

\* SQL NOT over a nullable boolean
SqlNot(v) == IF v.t = "boolean" THEN Bool(v.n = 0) ELSE Null

\* WHERE is_active = true: NULL = true is not true
IsActiveTrue(r) == r.is_active = Bool(TRUE)
\* WHERE is_active = false
IsActiveFalse(r) == r.is_active = Bool(FALSE)

UpperCase == <<"A", "B", "C", "D", "E", "F", "G", "H", "I", "J", "K", "L", "M",
               "N", "O", "P", "Q", "R", "S", "T", "U", "V", "W", "X", "Y", "Z">>
LowerCase == <<"a", "b", "c", "d", "e", "f", "g", "h", "i", "j", "k", "l", "m",
               "n", "o", "p", "q", "r", "s", "t", "u", "v", "w", "x", "y", "z">>

LowerChar(c) ==
    IF \E i \in 1..26 : UpperCase[i] = c
    THEN LowerCase[CHOOSE i \in 1..26 : UpperCase[i] = c]
    ELSE c

LowerStr(cs) == [i \in 1..Len(cs) |-> LowerChar(cs[i])]

Contains(hay, needle) ==
    \E i \in 0..(Len(hay) - Len(needle)) : SubSeq(hay, i + 1, i + Len(needle)) = needle

\* col ILIKE '%' || search || '%' (the search strings of the model hold no
\* LIKE wildcard); NULL ILIKE ... is not true
ILike(col, search) ==
    col.t = "string" /\ Contains(LowerStr(col.s), LowerStr(search.s))

\* ORDER BY created_at DESC of a set of rows, as a sequence.  Every write
\* carries its own timestamp, so created_at orders the rows totally.
RECURSIVE OrderByCreatedDesc(_)
OrderByCreatedDesc(rows) ==
    IF rows = {} THEN <<>>
    ELSE LET top == CHOOSE r \in rows : \A q \in rows : q.created_at <= r.created_at
         IN  <<top>> \o OrderByCreatedDesc(rows \ {top})

\* LIMIT lim OFFSET off
LimitOffset(seq, lim, off) == SubSeq(seq, off + 1, Min(Len(seq), off + lim))

\* Math.ceil(totalJobs / limitInt)
CeilDiv(a, b) == (a + b - 1) \div b

DigitChar(n) == CHOOSE c \in Digits : DigitVal(c) = n

\* the decimal text of a natural number
RECURSIVE IntToStr(_)
IntToStr(n) ==
    IF n < 10 THEN <<DigitChar(n)>> ELSE IntToStr(n \div 10) \o <<DigitChar(n % 10)>>

\* COUNT(*) over rows: a bigint, which the driver hands over as text
CountStar(rows) == Str(IntToStr(Cardinality(rows)))

\* CURRENT_TIMESTAMP of the statement about to run: later than that of
\* every statement that ran before it
CurrentTimestamp == dbNow + 1

---------------------------------------------------------------------------
(* Responses.  A handler's result is the response it sends together with   *)
(* the database state it leaves.                                            *)

MsgTokenRequired == "Access token required"
MsgInvalidToken  == "Invalid token"
\* 'Không tìm thấy công việc'
MsgNotFound      == "Khong tim thay cong viec"
\* 'Tiêu đề, công ty, địa điểm, mô tả và email liên hệ là bắt buộc'
MsgRequired      == "Tieu de, cong ty, dia diem, mo ta va email lien he la bat buoc"
\* 'Lương tối thiểu không được lớn hơn lương tối đa'
MsgSalaryRange   == "Luong toi thieu khong duoc lon hon luong toi da"
\* 'Lỗi server'
MsgServerError   == "Loi server"
\* 'Tạo công việc thành công'
MsgCreated       == "Tao cong viec thanh cong"
\* 'Cập nhật công việc thành công'
MsgUpdated       == "Cap nhat cong viec thanh cong"
\* 'Xóa công việc thành công'
MsgDeleted       == "Xoa cong viec thanh cong"
\* 'Kích hoạt công việc thành công'
MsgActivated     == "Kich hoat cong viec thanh cong"
\* 'Vô hiệu hóa công việc thành công'
MsgDeactivated   == "Vo hieu hoa cong viec thanh cong"
MsgTokenValid    == "Token hop le"
MsgLoginOk       == "Dang nhap thanh cong"
MsgLoginRequired == "Username va password la bat buoc"
MsgNoAccount     == "Tai khoan khong ton tai"
MsgBadPassword   == "Mat khau khong dung"

\* no pagination object in the response; no LIMIT/OFFSET in the statement
NoPaging == [currentPage |-> 0, totalPages |-> 0, totalJobs |-> 0]
NoLimit == [limit |-> 0, offset |-> 0]
\* no statistics in the response
NoStats ==
    [totalJobs |-> Undefined, activeJobs |-> Undefined, inactiveJobs |-> Undefined,
     jobsByType |-> {}, recentJobs |-> <<>>]

\* a response that leaves the database as it is
Reply(status, message, rows) ==
    [status |-> status, message |-> message, rows |-> rows, paging |-> NoPaging,
     sql |-> NoLimit, stats |-> NoStats, jobs |-> jobs, nextId |-> nextId, dbNow |-> dbNow]

\* a response after a write that left table J
Written(status, message, rows, J, nid) ==
    [status |-> status, message |-> message, rows |-> rows, paging |-> NoPaging,
     sql |-> NoLimit, stats |-> NoStats, jobs |-> J, nextId |-> nid,
     dbNow |-> CurrentTimestamp]

---------------------------------------------------------------------------
(* Tokens and the auth middleware.  The Authorization header is modelled   *)
(* by its space-separated parts (authHeader.split(' ')); an absent header  *)
(* has no parts.  The clock is jsonwebtoken's, in hours.                   *)

ServerSecret == "JWT_SECRET"

Word(w) == [w |-> w, sig |-> "", user |-> "", iat |-> 0, exp |-> 0]

\* jwt.sign({id, username}, secret, {expiresIn: '24h'}) at time iat
JwtSign(user, secret, iat) ==
    [w |-> "jwt", sig |-> secret, user |-> user, iat |-> iat, exp |-> iat + TokenLifetimeHours]

\* JwtVerify that does not look at the expiry (ignoreExpiration)
JwtVerifyIgnoringExpiry(token, now) ==
    /\ token.w = "jwt"
    /\ token.sig = ServerSecret

\* jwt.verify(token, process.env.JWT_SECRET, cb) calls back without error:
\* the token is well formed, signed with the secret and not yet expired
\* (jsonwebtoken fails with TokenExpiredError once now >= exp)
JwtVerify(token, now) ==
    /\ token.w = "jwt"
    /\ token.sig = ServerSecret
    /\ now < token.exp

\* authHeader && authHeader.split(' ')[1]
BearerToken(header) == IF Len(header) >= 2 THEN header[2] ELSE Word("")

\* authenticateToken: ok (next() is called) or the response sent instead
AuthenticateToken(header) ==
    LET token == BearerToken(header)
    IN  IF token.w = ""
        THEN [ok |-> FALSE, status |-> 401, message |-> MsgTokenRequired]
        ELSE IF ~JwtVerify(token, clock)
        THEN [ok |-> FALSE, status |-> 403, message |-> MsgInvalidToken]
        ELSE [ok |-> TRUE, status |-> 200, message |-> ""]

\* a route registered as app.METHOD(path, authenticateToken, handler)
Protected(header, result) ==
    LET a == AuthenticateToken(header)
    IN  IF a.ok THEN result ELSE Reply(a.status, a.message, <<>>)

\* table admins after initDatabase: the seeded admin (password admin123)
Admins == {[id |-> 1, username |-> "admin", password |-> "admin123"]}

\* POST /api/auth/login; "" stands for a missing username or password
Login(username, password) ==
    IF username = "" \/ password = ""
    THEN [status |-> 400, message |-> MsgLoginRequired, token |-> Word("")]
    ELSE IF ~\E a \in Admins : a.username = username
    THEN [status |-> 401, message |-> MsgNoAccount, token |-> Word("")]
    ELSE LET admin == CHOOSE a \in Admins : a.username = username
         IN  IF admin.password # password
             THEN [status |-> 401, message |-> MsgBadPassword, token |-> Word("")]
             ELSE [status |-> 200, message |-> MsgLoginOk,
                   token |-> JwtSign(admin.username, ServerSecret, clock)]

\* GET /api/auth/verify
VerifyToken(header) == Protected(header, Reply(200, MsgTokenValid, <<>>))

---------------------------------------------------------------------------
(* The job handlers.  Ids in requests are the text of an integer.          *)

\* SELECT id, title, ... created_at, updated_at: every column but is_active
PublicColumns(r) == [f \in (DOMAIN r) \ {"is_active"} |-> r[f]]

\* PublicFilter without WHERE is_active = true
PublicFilterAnyStatus(r, q) ==
    /\ Truthy(q.search) => (ILike(r.title, q.search) \/ ILike(r.company, q.search))
    /\ Truthy(q.location) => ILike(r.location, q.location)
    /\ Truthy(q.job_type) => r.job_type = q.job_type

\* the WHERE clause of the public listing and of its count query
PublicFilter(r, q) ==
    /\ IsActiveTrue(r)
    /\ Truthy(q.search) => (ILike(r.title, q.search) \/ ILike(r.company, q.search))
    /\ Truthy(q.location) => ILike(r.location, q.location)
    /\ Truthy(q.job_type) => r.job_type = q.job_type

\* the WHERE clause of the admin listing and of its count query
AdminFilter(r, q) ==
    Truthy(q.search) => (ILike(r.title, q.search) \/ ILike(r.company, q.search))

\* res.json({jobs: result.rows, pagination: {...}}) of the admin listing;
\* sql holds the LIMIT and OFFSET parameters of the statement
Listing(matching, q, rows) ==
    LET total == Cardinality(matching)
    IN  [status |-> 200, message |-> "", rows |-> rows,
         paging |-> [currentPage |-> PageInt(q.page),
                     totalPages |-> CeilDiv(total, LimitInt(q.limit)), totalJobs |-> total],
         sql |-> [limit |-> LimitInt(q.limit), offset |-> Offset(q.page, q.limit)],
         stats |-> NoStats, jobs |-> jobs, nextId |-> nextId, dbNow |-> dbNow]

\* the public listing adds hasNext and hasPrev to the pagination object
WithNextPrev(r) ==
    [r EXCEPT !.paging =
        [currentPage |-> r.paging.currentPage, totalPages |-> r.paging.totalPages,
         totalJobs |-> r.paging.totalJobs,
         hasNext |-> r.paging.currentPage < r.paging.totalPages,
         hasPrev |-> r.paging.currentPage > 1]]

\* GET /api/jobs
GetJobs(q) ==
    LET matching == {r \in jobs : PublicFilter(r, q)}
        page     == LimitOffset(OrderByCreatedDesc(matching), LimitInt(q.limit),
                                Offset(q.page, q.limit))
    IN  WithNextPrev(Listing(matching, q, [i \in 1..Len(page) |-> PublicColumns(page[i])]))

\* GetJob without AND is_active = true
GetJobAnyStatus(id) ==
    LET found == {r \in jobs : r.id = id}
    IN  IF found = {} THEN Reply(404, MsgNotFound, <<>>)
        ELSE Reply(200, "", <<CHOOSE r \in found : TRUE>>)

\* GET /api/jobs/:id
GetJob(id) ==
    LET found == {r \in jobs : r.id = id /\ IsActiveTrue(r)}
    IN  IF found = {} THEN Reply(404, MsgNotFound, <<>>)
        ELSE Reply(200, "", <<CHOOSE r \in found : TRUE>>)

\* GET /api/admin/jobs
AdminGetJobs(header, q) ==
    LET matching == {r \in jobs : AdminFilter(r, q)}
        page     == LimitOffset(OrderByCreatedDesc(matching), LimitInt(q.limit),
                                Offset(q.page, q.limit))
    IN  Protected(header, Listing(matching, q, page))

\* GET /api/admin/jobs/:id
AdminGetJob(header, id) ==
    LET found == {r \in jobs : r.id = id}
    IN  Protected(header,
            IF found = {} THEN Reply(404, MsgNotFound, <<>>)
            ELSE Reply(200, "", <<CHOOSE r \in found : TRUE>>))

\* !title || !company || !location || !description || !contact_email
MissingRequired(b) ==
    \/ ~Truthy(b.title) \/ ~Truthy(b.company) \/ ~Truthy(b.location)
    \/ ~Truthy(b.description) \/ ~Truthy(b.contact_email)

\* SalaryRangeInvalid comparing only values of type number
SalaryRangeInvalidNumbersOnly(b) ==
    /\ b.salary_min.t = "number"
    /\ b.salary_max.t = "number"
    /\ b.salary_min.n > b.salary_max.n

\* the salary check of create and update answers 400
SalaryRangeInvalid(b) ==
    /\ b.salary_min.t \notin {"null", "undefined"}
    /\ b.salary_max.t \notin {"null", "undefined"}
    /\ LET minNum == Number(b.salary_min)
           maxNum == Number(b.salary_max)
       IN  minNum.t # "NaN" /\ maxNum.t # "NaN" /\ minNum.n > maxNum.n

\* 'VND'
CurrencyVND == Str(<<"V", "N", "D">>)
\* 'Full-time'
FullTime == Str(<<"F", "u", "l", "l", "-", "t", "i", "m", "e">>)

\* the twelve column parameters shared by INSERT and UPDATE, cast to the
\* columns' types
ColumnParams(b) ==
    [title           |-> ToText(b.title),
     company         |-> ToText(b.company),
     location        |-> ToText(b.location),
     salary_min      |-> ToInteger(OrElse(b.salary_min, Null)),
     salary_max      |-> ToInteger(OrElse(b.salary_max, Null)),
     salary_currency |-> ToText(OrElse(b.salary_currency, CurrencyVND)),
     job_type        |-> ToText(OrElse(b.job_type, FullTime)),
     description     |-> ToText(b.description),
     requirements    |-> ToText(OrElse(b.requirements, Null)),
     benefits        |-> ToText(OrElse(b.benefits, Null)),
     contact_email   |-> ToText(b.contact_email),
     contact_phone   |-> ToText(OrElse(b.contact_phone, Null))]

\* is_active !== undefined ? is_active : true
IsActiveParam(b) == ToBoolean(IF b.is_active.t # "undefined" THEN b.is_active ELSE Bool(TRUE))

Rejected(params) == \E f \in DOMAIN params : params[f] = SqlError

\* InsertRow taking the lowest id that is free instead of the sequence's
InsertRowReusingIds(params) ==
    [f \in (DOMAIN params) \cup {"id", "is_active", "created_at", "updated_at"} |->
        CASE f = "id"         -> CHOOSE i \in 1..nextId :
                                    /\ \A r \in jobs : r.id # i
                                    /\ \A k \in 1..(i - 1) : \E r \in jobs : r.id = k
          [] f = "is_active"  -> Bool(TRUE)
          [] f = "created_at" -> CurrentTimestamp
          [] f = "updated_at" -> CurrentTimestamp
          [] OTHER            -> params[f]]

\* INSERT INTO jobs (...) VALUES (...) RETURNING *: id from the sequence,
\* is_active, created_at and updated_at from the column defaults
InsertRow(params) ==
    [f \in (DOMAIN params) \cup {"id", "is_active", "created_at", "updated_at"} |->
        CASE f = "id"         -> nextId
          [] f = "is_active"  -> Bool(TRUE)
          [] f = "created_at" -> CurrentTimestamp
          [] f = "updated_at" -> CurrentTimestamp
          [] OTHER            -> params[f]]

\* UpdateRow that keeps is_active when the body does not carry true or
\* false (a partial update)
UpdateRowKeepingActive(r, params, active) ==
    [f \in DOMAIN r |->
        CASE f = "id"         -> r.id
          [] f = "created_at" -> r.created_at
          [] f = "is_active"  -> IF active = Bool(TRUE) THEN r.is_active ELSE active
          [] f = "updated_at" -> CurrentTimestamp
          [] OTHER            -> params[f]]

\* UPDATE jobs SET <twelve columns>, is_active = $13, updated_at =
\* CURRENT_TIMESTAMP applied to row r
UpdateRow(r, params, active) ==
    [f \in DOMAIN r |->
        CASE f = "id"         -> r.id
          [] f = "created_at" -> r.created_at
          [] f = "is_active"  -> active
          [] f = "updated_at" -> CurrentTimestamp
          [] OTHER            -> params[f]]

\* ToggleRow that leaves updated_at alone
ToggleRowNoTimestamp(r) == [r EXCEPT !.is_active = SqlNot(r.is_active)]

\* UPDATE jobs SET is_active = NOT is_active, updated_at = CURRENT_TIMESTAMP
ToggleRow(r) == [r EXCEPT !.is_active = SqlNot(r.is_active), !.updated_at = CurrentTimestamp]

\* POST /api/admin/jobs
CreateJob(header, b) ==
    Protected(header,
        IF MissingRequired(b) THEN Reply(400, MsgRequired, <<>>)
        ELSE IF SalaryRangeInvalid(b) THEN Reply(400, MsgSalaryRange, <<>>)
        ELSE IF Rejected(ColumnParams(b)) THEN Reply(500, MsgServerError, <<>>)
        ELSE LET row == InsertRow(ColumnParams(b))
             IN  Written(201, MsgCreated, <<row>>, jobs \cup {row}, nextId + 1))

\* PUT /api/admin/jobs/:id
UpdateJob(header, id, b) ==
    Protected(header,
        IF MissingRequired(b) THEN Reply(400, MsgRequired, <<>>)
        ELSE IF SalaryRangeInvalid(b) THEN Reply(400, MsgSalaryRange, <<>>)
        ELSE IF Rejected(ColumnParams(b)) \/ IsActiveParam(b) = SqlError
        THEN Reply(500, MsgServerError, <<>>)
        ELSE LET found == {r \in jobs : r.id = id}
             IN  IF found = {} THEN Reply(404, MsgNotFound, <<>>)
                 ELSE LET old == CHOOSE r \in found : TRUE
                          new == UpdateRow(old, ColumnParams(b), IsActiveParam(b))
                      IN  Written(200, MsgUpdated, <<new>>, (jobs \ {old}) \cup {new}, nextId))

\* DELETE /api/admin/jobs/:id
DeleteJob(header, id) ==
    Protected(header,
        LET found == {r \in jobs : r.id = id}
        IN  IF found = {} THEN Reply(404, MsgNotFound, <<>>)
            ELSE Written(200, MsgDeleted, <<>>, jobs \ found, nextId))

\* ToggleJob registered without authenticateToken
ToggleJobUnprotected(header, id) ==
    LET found == {r \in jobs : r.id = id}
    IN  IF found = {} THEN Reply(404, MsgNotFound, <<>>)
        ELSE LET old == CHOOSE r \in found : TRUE
                 new == ToggleRow(old)
             IN  Written(200, IF Truthy(new.is_active) THEN MsgActivated ELSE MsgDeactivated,
                         <<new>>, (jobs \ {old}) \cup {new}, nextId)

\* PATCH /api/admin/jobs/:id/toggle
ToggleJob(header, id) ==
    Protected(header,
        LET found == {r \in jobs : r.id = id}
        IN  IF found = {} THEN Reply(404, MsgNotFound, <<>>)
            ELSE LET old == CHOOSE r \in found : TRUE
                     new == ToggleRow(old)
                 IN  Written(200, IF Truthy(new.is_active) THEN MsgActivated ELSE MsgDeactivated,
                             <<new>>, (jobs \ {old}) \cup {new}, nextId))

\* SELECT job_type, COUNT(*) as count FROM jobs WHERE is_active = true
\* GROUP BY job_type: one row per job type of the active rows, in no
\* particular order
JobsByType ==
    LET active == {r \in jobs : IsActiveTrue(r)}
    IN  {[job_type |-> t, count |-> CountStar({r \in active : r.job_type = t})] :
            t \in {r.job_type : r \in active}}

\* SELECT id, title, company, created_at
RecentColumns(r) ==
    [id |-> r.id, title |-> r.title, company |-> r.company, created_at |-> r.created_at]

\* ... FROM jobs ORDER BY created_at DESC LIMIT 5
RecentJobs ==
    LET sorted == OrderByCreatedDesc(jobs)
        page   == LimitOffset(sorted, RecentLimit, 0)
    IN  [i \in 1..Len(page) |-> RecentColumns(page[i])]

\* GET /api/admin/stats: five statements, one after the other, none of
\* them a write; here with no write of another request between them
GetStats(header) ==
    Protected(header,
        [Reply(200, "", <<>>) EXCEPT
            !.stats = [totalJobs    |-> ParseInt(CountStar(jobs)),
                       activeJobs   |-> ParseInt(CountStar({r \in jobs : IsActiveTrue(r)})),
                       inactiveJobs |-> ParseInt(CountStar({r \in jobs : IsActiveFalse(r)})),
                       jobsByType   |-> JobsByType,
                       recentJobs   |-> RecentJobs]])

---------------------------------------------------------------------------
(* Requests.                                                                *)

NoBody ==
    [title |-> Undefined, company |-> Undefined, location |-> Undefined,
     salary_min |-> Undefined, salary_max |-> Undefined, salary_currency |-> Undefined,
     job_type |-> Undefined, description |-> Undefined, requirements |-> Undefined,
     benefits |-> Undefined, contact_email |-> Undefined, contact_phone |-> Undefined,
     is_active |-> Undefined]

NoQuery ==
    [search |-> Undefined, location |-> Undefined, job_type |-> Undefined,
     page |-> Undefined, limit |-> Undefined]

\* only the five required fields
BodyMin ==
    [NoBody EXCEPT !.title = Str(<<"D", "e", "v">>), !.company = Str(<<"A", "c">>),
                   !.location = Str(<<"H", "N">>), !.description = Str(<<"d">>),
                   !.contact_email = Str(<<"e">>)]

\* every field, is_active false
BodyFull ==
    [title |-> Str(<<"O", "p", "s">>), company |-> Str(<<"B", "o">>),
     location |-> Str(<<"S", "G">>), salary_min |-> Num(5), salary_max |-> Str(<<"1", "0">>),
     salary_currency |-> Str(<<"U", "S", "D">>), job_type |-> Str(<<"P", "T">>),
     description |-> Str(<<"x">>), requirements |-> Str(<<"r">>), benefits |-> Str(<<"b">>),
     contact_email |-> Str(<<"f">>), contact_phone |-> Str(<<"9">>), is_active |-> Bool(FALSE)]

\* falsy optional values and is_active null
BodyFalsy ==
    [BodyMin EXCEPT !.salary_min = Num(0), !.salary_max = Num(5), !.requirements = Str(<<>>),
                    !.job_type = Str(<<>>), !.is_active = Null]

ValidBodies == {BodyMin, BodyFull, BodyFalsy}

\* bodies the salary check refuses: numbers, numeric strings, a mix
BadSalaryBodies ==
    {[BodyFull EXCEPT !.salary_min = Num(9), !.salary_max = Num(5)],
     [BodyMin  EXCEPT !.salary_min = Str(<<"1", "0">>), !.salary_max = Str(<<"9">>)],
     [BodyMin  EXCEPT !.salary_min = Str(<<"5">>), !.salary_max = Num(0)]}

\* bodies without one of the required fields
MissingFieldBodies ==
    {[BodyFull EXCEPT !.title = Undefined],
     [BodyMin  EXCEPT !.contact_email = Str(<<>>), !.salary_min = Num(9), !.salary_max = Num(5)]}

\* a salary that is no number: the check lets it through, the INTEGER
\* column refuses it
UnparsableBodies == {[BodyMin EXCEPT !.salary_min = Str(<<"a">>), !.salary_max = Num(5)]}

Bodies == ValidBodies \cup BadSalaryBodies \cup MissingFieldBodies \cup UnparsableBodies

\* the bodies that are stored, one the handlers answer 400 and one they
\* answer 500
SomeBodies ==
    ValidBodies \cup UnparsableBodies
        \cup {[BodyMin EXCEPT !.salary_min = Str(<<"1", "0">>), !.salary_max = Str(<<"9">>)]}

Bearer(token) == <<Word("Bearer"), token>>

\* headers a client can send: none, a scheme without token, a token that is
\* no JWT, a JWT signed with another secret, and the tokens logins gave out
BadHeaders ==
    {<<>>, <<Word("Bearer")>>, Bearer(Word("garbage")),
     Bearer(JwtSign("admin", "other", clock))}
GoodHeaders == {Bearer(t) : t \in issued}
Headers == BadHeaders \cup GoodHeaders

\* ids a client can name: every id given out so far and the next one
Ids == 1..nextId

Req(route, header, id, body, query) ==
    [route |-> route, header |-> header, id |-> id, body |-> body, query |-> query]

NoRequest == Req("none", <<>>, 0, NoBody, NoQuery)

---------------------------------------------------------------------------
(* Actions: one per route.                                                  *)

Init ==
    /\ jobs = {}
    /\ nextId = 1
    /\ dbNow = 0
    /\ clock = 0
    /\ issued = {}
    /\ last = [req |-> NoRequest, status |-> 0, message |-> "", rows |-> <<>>,
               paging |-> NoPaging, sql |-> NoLimit, stats |-> NoStats]
    /\ toggled = <<>>

IdsOf(J) == {r.id : r \in J}
RowOf(J, id) == CHOOSE r \in J : r.id = id

LastTwo(seq) == IF Len(seq) > 2 THEN SubSeq(seq, Len(seq) - 1, Len(seq)) ELSE seq

\* the history of toggles after request req turned table jobs into J
ToggledAfter(req, J) ==
    [i \in IdsOf(J) |->
        IF i \in IdsOf(jobs) /\ RowOf(J, i) = RowOf(jobs, i) THEN toggled[i]
        ELSE IF i \in IdsOf(jobs) /\ req.route = "toggle" /\ req.id = i
        THEN LastTwo(Append(toggled[i], RowOf(jobs, i)))
        ELSE <<>>]

\* the server answers req with result r and the database takes r's state
Serve(req, r) ==
    /\ r.dbNow <= MaxTime
    /\ toggled' = ToggledAfter(req, r.jobs)
    /\ jobs' = r.jobs
    /\ nextId' = r.nextId
    /\ dbNow' = r.dbNow
    /\ last' = [req |-> req, status |-> r.status, message |-> r.message, rows |-> r.rows,
                paging |-> r.paging, sql |-> r.sql, stats |-> r.stats]
    /\ UNCHANGED <<clock, issued>>

\* POST /api/auth/login
PostLogin(U, P) ==
    \E u \in U, p \in P :
        LET r == Login(u, p)
        IN  /\ r.status = 200 => Cardinality(issued) < MaxTokens
            /\ issued' = IF r.status = 200 THEN issued \cup {r.token} ELSE issued
            /\ last' = [req |-> Req("login", <<>>, 0, NoBody, NoQuery), status |-> r.status,
                        message |-> r.message, rows |-> <<r.token>>, paging |-> NoPaging,
                        sql |-> NoLimit, stats |-> NoStats]
            /\ UNCHANGED <<jobs, nextId, dbNow, clock, toggled>>

\* time passes on the server
Tick(d) ==
    /\ clock + d <= MaxClock
    /\ clock' = clock + d
    /\ UNCHANGED <<jobs, nextId, dbNow, issued, last, toggled>>

HourPasses == Tick(1)
DayPasses == Tick(TokenLifetimeHours)

GetVerify(H) ==
    \E h \in H : Serve(Req("verify", h, 0, NoBody, NoQuery), VerifyToken(h))

PostJob(H, B) ==
    \E h \in H, b \in B : Serve(Req("create", h, 0, b, NoQuery), CreateJob(h, b))

PutJob(H, I, B) ==
    \E h \in H, id \in I, b \in B : Serve(Req("update", h, id, b, NoQuery), UpdateJob(h, id, b))

DeleteJobById(H, I) ==
    \E h \in H, id \in I : Serve(Req("delete", h, id, NoBody, NoQuery), DeleteJob(h, id))

PatchToggle(H, I) ==
    \E h \in H, id \in I : Serve(Req("toggle", h, id, NoBody, NoQuery), ToggleJob(h, id))

GetJobById(I) ==
    \E id \in I : Serve(Req("detail", <<>>, id, NoBody, NoQuery), GetJob(id))

GetAdminJobById(H, I) ==
    \E h \in H, id \in I :
        Serve(Req("adminDetail", h, id, NoBody, NoQuery), AdminGetJob(h, id))

GetAdminStats(H) ==
    \E h \in H : Serve(Req("stats", h, 0, NoBody, NoQuery), GetStats(h))

GetJobList(Q) ==
    \E q \in Q : Serve(Req("list", <<>>, 0, NoBody, q), GetJobs(q))

GetAdminJobList(H, Q) ==
    \E h \in H, q \in Q : Serve(Req("adminList", h, 0, NoBody, q), AdminGetJobs(h, q))

---------------------------------------------------------------------------
(* Specifications.                                                          *)

\* queries of the listing routes in Spec: no filter, a search, every filter
Queries ==
    {NoQuery,
     [NoQuery EXCEPT !.search = Str(<<"d", "E">>), !.limit = Str(<<"1">>), !.page = Str(<<"2">>)],
     [NoQuery EXCEPT !.search = Str(<<"o">>), !.location = Str(<<"s">>),
                     !.job_type = Str(<<"P", "T">>), !.limit = Str(<<"1">>)]}

\* the job routes as an admin who has logged in uses them, and the public
\* routes
Next ==
    \/ PostLogin({"admin"}, {"admin123"})
    \/ PostJob(GoodHeaders, SomeBodies)
    \/ PutJob(GoodHeaders, Ids, SomeBodies)
    \/ DeleteJobById(GoodHeaders, Ids)
    \/ PatchToggle(GoodHeaders, Ids)
    \/ GetJobById(Ids)
    \/ GetAdminJobById(GoodHeaders, Ids)
    \/ GetJobList(Queries)
    \/ GetAdminJobList(GoodHeaders, Queries)

Spec == Init /\ [][Next]_vars

\* the two routes that write a request body, over every kind of body
NextBody ==
    \/ PostLogin({"admin"}, {"admin123"})
    \/ PostJob(GoodHeaders, Bodies)
    \/ PutJob(GoodHeaders, Ids, Bodies)

SpecBody == Init /\ [][NextBody]_vars

\* the statistics after creates, updates with each is_active a body can
\* carry, toggles and deletes
NextStats ==
    \/ PostLogin({"admin"}, {"admin123"})
    \/ PostJob(GoodHeaders, {BodyMin, BodyFull})
    \/ PutJob(GoodHeaders, Ids, ValidBodies)
    \/ PatchToggle(GoodHeaders, Ids)
    \/ DeleteJobById(GoodHeaders, Ids)
    \/ GetAdminStats(GoodHeaders)

SpecStats == Init /\ [][NextStats]_vars

\* values of the page and limit query parameters: absent, empty, without
\* a digit, negative, zero, in range, at and over the maximum, with white
\* space, a sign or trailing text
RawValues ==
    {Undefined, Str(<<>>), Str(<<"a">>), Str(<<"a", "7">>), Str(<<"-">>),
     Str(<<"-", "5">>), Str(<<"-", "1">>), Str(<<"0">>), Str(<<"-", "0">>),
     Str(<<"1">>), Str(<<"2">>), Str(<<"3">>), Str(<<"1", "0">>),
     Str(<<"1", "0", "0">>), Str(<<"1", "0", "1">>), Str(<<"5", "0", "0">>),
     Str(<<" ", "2">>), Str(<<"+", "2">>), Str(<<"2", "a">>), Str(<<"2", ".", "9">>)}

\* one of page and limit ranges over RawValues, the other over a few
PagingQueries ==
    {[NoQuery EXCEPT !.page = p, !.limit = l] : p \in RawValues, l \in {Undefined, Str(<<"1">>)}}
    \cup
    {[NoQuery EXCEPT !.page = p, !.limit = l] : p \in {Undefined, Str(<<"2">>)}, l \in RawValues}

\* the listing routes under every page and limit, over tables the admin
\* builds from two bodies
NextList ==
    \/ PostLogin({"admin"}, {"admin123"})
    \/ PostJob(GoodHeaders, {BodyMin, BodyFull})
    \/ GetJobList(PagingQueries)
    \/ GetAdminJobList(GoodHeaders, PagingQueries)

SpecList == Init /\ [][NextList]_vars

\* the mutation routes under every header, while tokens expire
NextGate ==
    \/ PostLogin({"admin"}, {"admin123"})
    \/ DayPasses
    \/ PostJob(Headers, {BodyFull})
    \/ PutJob(Headers, Ids, {BodyMin})
    \/ DeleteJobById(Headers, Ids)
    \/ PatchToggle(Headers, Ids)

SpecGate == Init /\ [][NextGate]_vars

\* login and token verification, hour by hour
NextAuth ==
    \/ PostLogin({"", "admin", "root"}, {"", "admin123", "guess"})
    \/ HourPasses
    \/ GetVerify(Headers)

SpecAuth == Init /\ [][NextAuth]_vars

---------------------------------------------------------------------------
(* Vocabulary of the properties.                                            *)

MutationRoutes == {"create", "update", "delete", "toggle"}
ListRoutes == {"list", "adminList"}

\* the request carries a token a login gave out that has not expired
CarriesValidToken(req) ==
    LET token == BearerToken(req.header)
    IN  token \in issued /\ clock < token.iat + TokenLifetimeHours

\* v is a number, or a string that is a decimal integer
IsNumeric(v) ==
    \/ v.t = "number"
    \/ /\ v.t = "string"
       /\ Unsigned(v.s) # <<>>
       /\ \A i \in 1..Len(Unsigned(v.s)) : Unsigned(v.s)[i] \in Digits

NumericValue(v) == IF v.t = "number" THEN v.n ELSE Sign(v.s) * DigitsToInt(Unsigned(v.s))

HasRequiredFields(b) ==
    \A f \in {"title", "company", "location", "description", "contact_email"} :
        b[f].t = "string" /\ b[f].s # <<>>


---------------------------------------------------------------------------
(* C1: an authenticated create or update that carries the five required    *)
(* fields and numeric salary_min > salary_max is answered 400 and leaves   *)
(* the jobs table as it was.                                                *)
C1_BadSalaryRangeRejected ==
    [][LET q == last'.req
       IN  (/\ q.route \in {"create", "update"}
            /\ CarriesValidToken(q)
            /\ HasRequiredFields(q.body)
            /\ IsNumeric(q.body.salary_min) /\ IsNumeric(q.body.salary_max)
            /\ NumericValue(q.body.salary_min) > NumericValue(q.body.salary_max))
           => (last'.status = 400 /\ jobs' = jobs)]_vars

\* an update of an existing job was refused for its salary range, given as
\* numeric strings
C1_Witness ==
    /\ last.req.route = "update"
    /\ last.req.id \in IdsOf(jobs)
    /\ last.req.body.salary_min.t = "string"
    /\ IsNumeric(last.req.body.salary_min) /\ IsNumeric(last.req.body.salary_max)
    /\ last.status = 400
    /\ last.message = MsgSalaryRange

---------------------------------------------------------------------------
(* C2: in every listing response the limit used by the query is within     *)
(* 1..100, the page is at least 1 and at most limit jobs are returned.     *)
C2_PaginationClamped ==
    last.req.route \in ListRoutes =>
        /\ last.status = 200
        /\ last.sql.limit \in 1..MaxLimit
        /\ last.paging.currentPage \in Nat \ {0}
        /\ Len(last.rows) <= last.sql.limit

\* a listing with limit=1 returned one job where more matched
C2_Witness ==
    /\ last.req.route = "list"
    /\ last.req.query.limit = Str(<<"1">>)
    /\ last.sql.limit = 1
    /\ Len(last.rows) = 1
    /\ last.paging.totalJobs > 1

---------------------------------------------------------------------------
(* C3: malformed page and limit values never fail a listing; their effect  *)
(* is stated by C3_SanitizedPagination below.                               *)

\* the integer parseInt reads at the start of v, if any
HasLeadingInt(v) == v.t = "string" /\ LeadingDigits(Unsigned(SkipWs(v.s))) # <<>>
LeadingInt(v) ==
    Sign(SkipWs(v.s)) * DigitsToInt(LeadingDigits(Unsigned(SkipWs(v.s))))

\* the response the route of the last request gives to query q now
ListingOf(q) ==
    LET r == IF last.req.route = "list" THEN GetJobs(q) ELSE AdminGetJobs(last.req.header, q)
    IN  [status |-> r.status, rows |-> r.rows, paging |-> r.paging]

\* what the client saw of the last listing
LastListing == [status |-> last.status, rows |-> last.rows, paging |-> last.paging]

\* the last listing answered as it would have with limit = l
BehavesAsLimit(l) == LastListing = ListingOf([last.req.query EXCEPT !.limit = Str(l)])
BehavesAsPage(p) == LastListing = ListingOf([last.req.query EXCEPT !.page = Str(p)])

---------------------------------------------------------------------------
\* filters, pages and limits of the public listing that C4 ranges over
FilterQueries ==
    {[search |-> a, location |-> b, job_type |-> c, page |-> d, limit |-> e] :
        a \in {Undefined, Str(<<"o">>), Str(<<"A", "C">>)},
        b \in {Undefined, Str(<<"s">>)},
        c \in {Undefined, FullTime},
        d \in {Undefined, Str(<<"2">>)},
        e \in {Undefined, Str(<<"1">>)}}

(* C4: whatever the admin has created, updated, toggled and deleted, the   *)
(* public listing returns, for every filter, page and limit, only jobs     *)
(* whose is_active is true; the admin listing without a search returns     *)
(* every stored job, inactive ones too, on some page.                      *)
C4_PublicListsOnlyActive ==
    /\ \A q \in FilterQueries :
          LET rows == GetJobs(q).rows
          IN  \A i \in 1..Len(rows) :
                 \E r \in jobs : r.id = rows[i].id /\ r.is_active = Bool(TRUE)
    /\ \A h \in GoodHeaders, r \in jobs, lim \in {Undefined, Str(<<"1">>), Str(<<"2">>)} :
          \E p \in 1..Cardinality(jobs) :
             LET res == AdminGetJobs(h, [NoQuery EXCEPT !.page = Str(IntToStr(p)), !.limit = lim])
             IN  res.status = 200 /\ \E i \in 1..Len(res.rows) : res.rows[i] = r

\* the public listing answered with a job while an inactive job was stored
\* that its filter (none) did not exclude
C4_Witness ==
    /\ last.req.route = "list"
    /\ last.req.query = NoQuery
    /\ Len(last.rows) > 0
    /\ \E r \in jobs : r.is_active = Bool(FALSE)

---------------------------------------------------------------------------
(* C5: for a stored job with is_active = false the public detail route     *)
(* answers 404 and the admin detail route, with a valid token, 200 with    *)
(* the row; for a stored active job both answer 200.                       *)
C5_DetailVisibility ==
    \A r \in jobs, h \in GoodHeaders :
        LET pub == GetJob(r.id)
            adm == AdminGetJob(h, r.id)
        IN  /\ r.is_active = Bool(FALSE) =>
                 (pub.status = 404 /\ adm.status = 200 /\ adm.rows = <<r>>)
            /\ r.is_active = Bool(TRUE) =>
                 (pub.status = 200 /\ pub.rows = <<r>> /\ adm.status = 200 /\ adm.rows = <<r>>)

\* the public detail route answered 404 for a stored, inactive job
C5_Witness ==
    /\ last.req.route = "detail"
    /\ last.status = 404
    /\ \E r \in jobs : r.id = last.req.id /\ r.is_active = Bool(FALSE)

---------------------------------------------------------------------------
(* C6: after two successive toggles of a job, no other write to it in      *)
(* between, is_active is what it was before the first and updated_at grew  *)
(* strictly with each of the two.                                           *)
C6_DoubleToggleRestores ==
    \A r \in jobs :
        Len(toggled[r.id]) = 2 =>
            /\ r.is_active = toggled[r.id][1].is_active
            /\ toggled[r.id][2].updated_at > toggled[r.id][1].updated_at
            /\ r.updated_at > toggled[r.id][2].updated_at

\* a job that was active has been toggled twice in a row
C6_Witness ==
    /\ last.req.route = "toggle"
    /\ last.status = 200
    /\ \E r \in jobs :
          /\ r.id = last.req.id
          /\ Len(toggled[r.id]) = 2
          /\ toggled[r.id][1].is_active = Bool(TRUE)
          /\ toggled[r.id][2].is_active = Bool(FALSE)

---------------------------------------------------------------------------
(* C7: a token a login issued at time T is accepted by the auth middleware *)
(* at every time before T+24h and refused with 403 at every time after     *)
(* T+24h; tokens are never withdrawn, and an issued token stops being     *)
(* accepted only by the clock reaching its expiry.                         *)
Accepted(token) == AuthenticateToken(Bearer(token)).ok

C7_TokenLifetime ==
    /\ [](\A t \in issued :
            /\ clock < t.iat + TokenLifetimeHours => Accepted(t)
            /\ clock > t.iat + TokenLifetimeHours =>
                 AuthenticateToken(Bearer(t)).status = 403)
    /\ [][/\ \A t \in issued' \ issued :
                last'.req.route = "login" /\ last'.status = 200 /\ t.iat = clock
          /\ issued \subseteq issued'
          /\ \A t \in issued :
                (Accepted(t) /\ ~Accepted(t)') => clock' >= t.iat + TokenLifetimeHours]_vars

\* 25 hours after its issue a token was refused with 403
C7_Witness ==
    /\ last.req.route = "verify"
    /\ BearerToken(last.req.header) \in issued
    /\ clock = BearerToken(last.req.header).iat + 25
    /\ last.status = 403
    /\ last.message = MsgInvalidToken

---------------------------------------------------------------------------
(* C8: a request to create, update, delete or toggle without a token is    *)
(* answered 401 'Access token required', one with a token that is invalid  *)
(* or expired 403 'Invalid token', and neither changes the jobs table; so  *)
(* the table changes only in a request that carries a valid token.         *)
C8_MutationsBehindAuthGate ==
    [][LET q == last'.req
           token == BearerToken(q.header)
       IN  clock' = clock =>
           /\ (q.route \in MutationRoutes /\ token.w = "") =>
                 (last'.status = 401 /\ last'.message = MsgTokenRequired /\ jobs' = jobs)
           /\ (q.route \in MutationRoutes /\ token.w # "" /\ ~CarriesValidToken(q)) =>
                 (last'.status = 403 /\ last'.message = MsgInvalidToken /\ jobs' = jobs)
           /\ jobs' # jobs => (q.route \in MutationRoutes /\ CarriesValidToken(q))]_vars

\* a toggle of a stored job was refused because its token had expired
C8_Witness ==
    /\ last.req.route = "toggle"
    /\ last.req.id \in IdsOf(jobs)
    /\ BearerToken(last.req.header) \in issued
    /\ clock >= BearerToken(last.req.header).exp
    /\ last.status = 403

---------------------------------------------------------------------------
\* ids the sequence gave out whose rows are gone
DeletedIds == (1..(nextId - 1)) \ IdsOf(jobs)

\* the update handler answers 400 or 500 before it looks for the row
FailsBeforeLookup(b) ==
    MissingRequired(b) \/ SalaryRangeInvalid(b) \/ Rejected(ColumnParams(b))

---------------------------------------------------------------------------
\* what column f holds after an update with body b, as C10 states it
ColumnAfterUpdate(b, f) ==
    CASE f \in {"title", "company", "location", "description", "contact_email"} -> b[f]
      [] f \in {"salary_min", "salary_max"} ->
            IF Truthy(b[f]) THEN Num(NumericValue(b[f])) ELSE Null
      [] f = "salary_currency" -> IF Truthy(b[f]) THEN b[f] ELSE CurrencyVND
      [] f = "job_type"        -> IF Truthy(b[f]) THEN b[f] ELSE FullTime
      [] f \in {"requirements", "benefits", "contact_phone"} ->
            IF Truthy(b[f]) THEN b[f] ELSE Null
      [] f = "is_active" -> IF b[f] = Undefined THEN Bool(TRUE) ELSE b[f]

(* C10: a successful update replaces every mutable column of the one row   *)
(* by the request's value or its default (null for optional fields not     *)
(* sent, 'VND', 'Full-time', true for is_active when undefined, whatever   *)
(* it was), sets updated_at to the time of the statement and leaves id and *)
(* created_at of the row and every other row as they were.                 *)
C10_UpdateReplacesRow ==
    [][LET q == last'.req
       IN  (q.route = "update" /\ last'.status = 200) =>
              \E old \in jobs, new \in jobs' :
                 /\ old.id = q.id /\ new.id = q.id
                 /\ jobs' \ {new} = jobs \ {old}
                 /\ new.created_at = old.created_at
                 /\ new.updated_at = dbNow' /\ dbNow' > dbNow
                 /\ \A f \in DOMAIN q.body : new[f] = ColumnAfterUpdate(q.body, f)
                 /\ last'.rows = <<new>>]_vars

\* an update without is_active succeeded on one of two stored jobs
C10_Witness ==
    /\ last.req.route = "update"
    /\ last.status = 200
    /\ last.req.body.is_active = Undefined
    /\ last.req.body.requirements = Undefined
    /\ \E r \in jobs :
          r.id = last.req.id /\ r.is_active = Bool(TRUE) /\ r.requirements = Null
          /\ r.created_at < r.updated_at
    /\ Cardinality(jobs) = 2

---------------------------------------------------------------------------
\* the sum of the counts of the groups of a jobsByType result
RECURSIVE SumOfCounts(_)
SumOfCounts(groups) ==
    IF groups = {} THEN 0
    ELSE LET g == CHOOSE x \in groups : TRUE
         IN  ParseInt(g.count).n + SumOfCounts(groups \ {g})

(* C11: whatever creates, updates (with any is_active a body can carry),   *)
(* toggles and deletes came before, a stats response reports totalJobs =   *)
(* activeJobs + inactiveJobs, and the counts in jobsByType sum to          *)
(* activeJobs.                                                              *)
C11_StatsCountsAddUp ==
    (last.req.route = "stats" /\ last.status = 200) =>
        /\ last.stats.totalJobs.n = last.stats.activeJobs.n + last.stats.inactiveJobs.n
        /\ SumOfCounts(last.stats.jobsByType) = last.stats.activeJobs.n

====
